---- MODULE Spec2Model ----
(***************************************************************************)
(* A model of the kindr quaternion value types (Quaternion and             *)
(* UnitQuaternion, rm/quaternions/QuaternionEigen.hpp) and of the angle    *)
(* wrapping utility (Mod, wrapAngle, wrapPosNegPI, wrapTwoPI,              *)
(* rm/common/common.hpp).                                                  *)
(*                                                                         *)
(* Scalars of the quaternion types are fixed-point numbers: the integer k  *)
(* stands for the coefficient k / Scale.  Scalars of the angle utility are *)
(* a small binary floating-point format with round-to-nearest-even,        *)
(* infinities and NaN, so that the cut-off effects the code handles (and   *)
(* the ones it does not) happen in the model as they do in a double.       *)
(***************************************************************************)
EXTENDS Integers, Sequences, FiniteSets

(***************************************************************************)
(* Part 1.  The scalar type of the quaternions and the algebraic kernel.   *)
(***************************************************************************)

\* Resolution of the fixed-point scalar PrimType: 1.0 is the integer Scale.
Scale == 1000

\* The tolerance literal 1e-6 of the unit-norm assertions, as 1 / TolInv.
TolInv == 1000000

\* Number of stack frames the recursion of Quaternion::operator= may take
\* before the stack is exhausted.
MaxDepth == 3

\* The value of a coefficient that is not a number (0/0 in the kernel).
NaN == 8 * Scale

Abs(n) == IF n < 0 THEN -n ELSE n

\* The largest r in lo..hi with r * r <= n (lo * lo <= n < (hi + 1)^2).
RECURSIVE SqrtSearch(_, _, _)
SqrtSearch(n, lo, hi) ==
    IF lo >= hi THEN lo
    ELSE LET mid == (lo + hi + 1) \div 2
         IN  IF mid * mid <= n THEN SqrtSearch(n, mid, hi)
                               ELSE SqrtSearch(n, lo, mid - 1)

\* sqrt on the fixed-point grid, rounded to nearest: n is a squared norm in
\* units of 1/Scale^2 and the result is a norm in units of 1/Scale.
Sqrt(n) ==
    LET r == SqrtSearch(n, 0, 4 * Scale)
    IN  IF n - r * r > r THEN r + 1 ELSE r

\* n / d rounded to the nearest integer, halves away from zero (d > 0).
RoundDiv(n, d) ==
    IF n >= 0 THEN (2 * n + d) \div (2 * d)
              ELSE -((2 * (-n) + d) \div (2 * d))

\* Quaternions are the tuples <<w, x, y, z>>.
Zero == <<0, 0, 0, 0>>

\* Implementation::Identity()
Identity == <<Scale, 0, 0, 0>>

\* A quaternion whose four coefficients are NaN.
NaNQuat == <<NaN, NaN, NaN, NaN>>

\* The absence of an object: a constructor that raised built nothing, and a
\* temporary that was never returned.
NoObj == <<>>

IsNaNQuat(c) == \E i \in 1..4 : c[i] = NaN

Neg(k) == IF k = NaN THEN NaN ELSE -k

\* Base::squaredNorm(), in units of 1/Scale^2.
SquaredNorm(c) == c[1] * c[1] + c[2] * c[2] + c[3] * c[3] + c[4] * c[4]

\* Base::norm(), in units of 1/Scale.
Norm(c) == Sqrt(SquaredNorm(c))

\* A copy/paste slip in the conjugate: the z coefficient is taken from y.
ConjugateSlip(c) == <<c[1], Neg(c[2]), Neg(c[3]), Neg(c[3])>>

\* Base::conjugate(): the vector part is negated.
Conjugate(c) == <<c[1], Neg(c[2]), Neg(c[3]), Neg(c[4])>>

\* Base::normalized() of a quaternion of non-zero norm: every coefficient is
\* divided by the norm and rounded to the scalar grid.
Normalized(c) == [i \in 1..4 |-> RoundDiv(c[i] * Scale, Norm(c))]

\* What Base::normalized() can return.  For a zero norm the kernel divides
\* 0 by 0 (NaN coefficients), or, in kernels that guard the division,
\* returns the coefficients as they are.
NormalizedOutcomes(c) ==
    IF IsNaNQuat(c) THEN {NaNQuat}
    ELSE IF Norm(c) = 0 THEN {NaNQuat, c}
    ELSE {Normalized(c)}

\* RM_ASSERT_SCALAR_NEAR_DBG's condition on norm(), 1, 1e-6:
\* |sqrt(s) / Scale - 1| <= 1 / TolInv for the squared norm s, that is
\*   Scale^2 * (1 - 1/TolInv)^2 <= s <= Scale^2 * (1 + 1/TolInv)^2.
\* With s an integer the two sides are s - Scale^2 <= up, Scale^2 - s <= lo,
\*   up = floor((2 Scale^2 + Scale^2 / TolInv) / TolInv)
\*   lo = floor((2 Scale^2 - Scale^2 / TolInv) / TolInv)
\* and the floors nest, which keeps every intermediate small.
ScalarNear(s) ==
    LET s2 == Scale * Scale
        up == (2 * s2 + s2 \div TolInv) \div TolInv
        lo == (2 * s2 - (s2 + TolInv - 1) \div TolInv) \div TolInv
    IN  /\ s - s2 <= up
        /\ s2 - s <= lo

\* norm() is within 1e-6 of 1.  A NaN norm is near nothing.
NormNear(c) == ~IsNaNQuat(c) /\ ScalarNear(SquaredNorm(c))

(***************************************************************************)
(* Part 2.  The state of a program that uses the quaternion types.         *)
(***************************************************************************)

VARIABLES
    checks,   \* TRUE iff the unit-norm assertions are compiled in
    q,        \* a Quaternion object
    u,        \* a UnitQuaternion object, or NoObj when its constructor raised
    made,     \* how u was constructed: "default", "validated" or "none"
    v,        \* a second UnitQuaternion object, default constructed
    t,        \* the temporary returned by the last operation, or NoObj
    arg,      \* the coefficients the last operation was given
    last,     \* the last operation
    raised,   \* TRUE iff the last operation raised the unit-norm assertion
    status,   \* "run", "assigning" (inside Quaternion::operator=), "crashed", "hung"
    depth,    \* stack frames of Quaternion::operator= in progress
    mx, my, mz,   \* arguments of the angle utility
    mres,     \* its result
    mop       \* the function of the angle utility that was applied

qvars == <<checks, q, u, made, v, t, arg, last, raised, status, depth>>
mvars == <<mx, my, mz, mres, mop>>
vars == <<checks, q, u, made, v, t, arg, last, raised, status, depth,
          mx, my, mz, mres, mop>>

\* Coefficient quadruples the operations are given.
Fifth == Scale \div 5
QuatInputs ==
    { Zero,
      Identity,
      <<Scale, 1, 0, 0>>,
      <<Scale, 2, 0, 0>>,
      <<2 * Scale, 0, 0, 0>>,
      <<0, 3 * Fifth, 0, 4 * Fifth>>,
      <<0, 6 * Fifth, 0, 8 * Fifth>>,
      <<0, 0, 0, 2>> }

\* Values written through the mutable coefficient accessors.
WriteVals == {0, Scale}

\* The unit-norm assertion fails: it is compiled in and the norm is off.
AssertFails(c) == checks /\ ~NormNear(c)

\* What a validating constructor leaves: the object holding the coefficients
\* c, or nothing when the assertion in its body raised.
Constructed(c) == IF AssertFails(c) THEN NoObj ELSE c

InitQuat ==
    /\ checks \in BOOLEAN
    /\ q = Zero                  \* Quaternion()
    /\ u = Identity              \* UnitQuaternion()
    /\ made = "default"
    /\ v = Identity              \* UnitQuaternion()
    /\ t = NoObj
    /\ arg = NoObj
    /\ last = "init"
    /\ raised = FALSE
    /\ status = "run"
    /\ depth = 0

\* The angle utility at rest.
IdleMod == mx = 0 /\ my = 0 /\ mz = 0 /\ mres = 0 /\ mop = "none"

\* The bookkeeping every operation of the quaternion types does.
Did(op, a, r) == last' = op /\ arg' = a /\ raised' = r

(***************************************************************************)
(* Quaternion                                                              *)
(***************************************************************************)

\* Quaternion(w, x, y, z)
QCtor(c) ==
    /\ status = "run"
    /\ q' = c
    /\ t' = NoObj
    /\ Did("Q.ctor", c, FALSE)
    /\ UNCHANGED mvars
    /\ UNCHANGED <<checks, u, made, v, status, depth>>

\* q.conjugate()
QConjugate ==
    /\ status = "run"
    /\ t' = Conjugate(q)
    /\ Did("Q.conjugate", q, FALSE)
    /\ UNCHANGED mvars
    /\ UNCHANGED <<checks, q, u, made, v, status, depth>>

\* q.conjugate().conjugate(): conjugate() of the temporary just returned.
QConjugateAgain ==
    /\ status = "run"
    /\ last = "Q.conjugate"
    /\ t' = Conjugate(t)
    /\ Did("Q.conjugate.conjugate", arg, FALSE)
    /\ UNCHANGED mvars
    /\ UNCHANGED <<checks, q, u, made, v, status, depth>>

\* Entering Quaternion::operator=(const Quaternion &): the first frame.
EnterAssign(op, a) ==
    /\ status' = "assigning"
    /\ depth' = 1
    /\ t' = NoObj
    /\ Did(op, a, FALSE)

\* q = other, other a Quaternion with the coefficients c.
QAssign(c) ==
    /\ status = "run"
    /\ EnterAssign("Q.assign(Q)", c)
    /\ UNCHANGED mvars
    /\ UNCHANGED <<checks, q, u, made, v>>

\* q = u: builds Quaternion(u.toImplementation()) and assigns it with
\* operator=(const Quaternion &).
QAssignUnit ==
    /\ status = "run"
    /\ u # NoObj
    /\ EnterAssign("Q.assign(U)", u)
    /\ UNCHANGED mvars
    /\ UNCHANGED <<checks, q, u, made, v>>

\* The body of Quaternion::operator=(const Quaternion &) is "*this = other":
\* the operator calls itself, on the same receiver, before it does anything.
AssignRecurse ==
    /\ status = "assigning"
    /\ depth < MaxDepth
    /\ depth' = depth + 1
    /\ UNCHANGED mvars
    /\ UNCHANGED <<checks, q, u, made, v, t, arg, last, raised, status>>

\* The recursion has no exit.  A build that keeps the frames exhausts the stack.
AssignStackOverflow ==
    /\ status = "assigning"
    /\ depth = MaxDepth
    /\ status' = "crashed"
    /\ UNCHANGED mvars
    /\ UNCHANGED <<checks, q, u, made, v, t, arg, last, raised, depth>>

\* A build that turns the tail call into a jump loops for ever.
AssignSpin ==
    /\ status = "assigning"
    /\ status' = "hung"
    /\ UNCHANGED mvars
    /\ UNCHANGED <<checks, q, u, made, v, t, arg, last, raised, depth>>

\* A toUnitQuaternion() that constructs from the coefficients as they are.
QToUnitQuaternionAsIs ==
    /\ status = "run"
    /\ t' = Constructed(q)
    /\ Did("Q.toUnitQuaternion", q, AssertFails(q))
    /\ UNCHANGED mvars
    /\ UNCHANGED <<checks, q, u, made, v, status, depth>>

\* q.toUnitQuaternion(): UnitQuaternion(Base::normalized()).
QToUnitQuaternion ==
    /\ status = "run"
    /\ \E n \in NormalizedOutcomes(q) :
          /\ t' = Constructed(n)
          /\ Did("Q.toUnitQuaternion", q, AssertFails(n))
    /\ UNCHANGED mvars
    /\ UNCHANGED <<checks, q, u, made, v, status, depth>>

(***************************************************************************)
(* UnitQuaternion                                                          *)
(***************************************************************************)

\* UnitQuaternion(): the identity, no assertion.
UCtorDefault ==
    /\ status = "run"
    /\ u' = Identity
    /\ made' = "default"
    /\ t' = NoObj
    /\ Did("U.ctor()", NoObj, FALSE)
    /\ UNCHANGED mvars
    /\ UNCHANGED <<checks, q, v, status, depth>>

\* A constructor that stores the coefficients and asserts nothing.
UCtorUnchecked(op, c) ==
    /\ status = "run"
    /\ u' = c
    /\ made' = "validated"
    /\ t' = NoObj
    /\ Did(op, c, FALSE)
    /\ UNCHANGED mvars
    /\ UNCHANGED <<checks, q, v, status, depth>>

\* The three constructors that take coefficients store them in uq and then
\* assert that norm() is near 1.
UCtorValidating(op, c) ==
    /\ status = "run"
    /\ u' = Constructed(c)
    /\ made' = IF AssertFails(c) THEN "none" ELSE "validated"
    /\ t' = NoObj
    /\ Did(op, c, AssertFails(c))
    /\ UNCHANGED mvars
    /\ UNCHANGED <<checks, q, v, status, depth>>

\* UnitQuaternion(w, x, y, z)
UCtorCoeffs(c) == UCtorValidating("U.ctor(w,x,y,z)", c)

\* UnitQuaternion(const Base & other), other the Quaternion q
UCtorFromQuat == UCtorValidating("U.ctor(Q)", q)

\* UnitQuaternion(const Implementation & other)
UCtorFromImpl(c) == UCtorValidating("U.ctor(Impl)", c)

\* An operator= that checks the norm of its source before it assigns.
UAssignChecked ==
    /\ status = "run"
    /\ u # NoObj
    /\ IF AssertFails(u)
       THEN /\ Did("U.assign(U)", u, TRUE)
            /\ t' = NoObj
            /\ UNCHANGED <<status, depth>>
       ELSE EnterAssign("U.assign(U)", u)
    /\ UNCHANGED mvars
    /\ UNCHANGED <<checks, q, u, made, v>>

\* v = u: "uq = other.cast<PrimType>()" assigns a Quaternion with
\* Quaternion::operator=, and asserts nothing.
UAssign ==
    /\ status = "run"
    /\ u # NoObj
    /\ EnterAssign("U.assign(U)", u)
    /\ UNCHANGED mvars
    /\ UNCHANGED <<checks, q, u, made, v>>

\* v(u): "uq = other.uq" assigns with Quaternion::operator=.
UCallUnit ==
    /\ status = "run"
    /\ u # NoObj
    /\ EnterAssign("U.call(U)", u)
    /\ UNCHANGED mvars
    /\ UNCHANGED <<checks, q, u, made, v>>

\* An operator() that copies the coefficients and asserts nothing.
UCallQuatUnchecked ==
    /\ status = "run"
    /\ u # NoObj
    /\ u' = q
    /\ t' = NoObj
    /\ Did("U.call(Q)", q, FALSE)
    /\ UNCHANGED mvars
    /\ UNCHANGED <<checks, q, made, v, status, depth>>

\* u(q): the four coefficients are written through the accessors, and then
\* norm() is asserted to be near 1.
UCallQuat ==
    /\ status = "run"
    /\ u # NoObj
    /\ u' = q
    /\ t' = NoObj
    /\ Did("U.call(Q)", q, AssertFails(q))
    /\ UNCHANGED mvars
    /\ UNCHANGED <<checks, q, made, v, status, depth>>

\* u.w() = k, u.x() = k, u.y() = k, u.z() = k: the non-const accessors hand
\* out a reference to the coefficient, and nothing is asserted.
UWrite(i, k) ==
    /\ status = "run"
    /\ u # NoObj
    /\ u' = [u EXCEPT ![i] = k]
    /\ t' = NoObj
    /\ Did("U.write", <<i, k>>, FALSE)
    /\ UNCHANGED mvars
    /\ UNCHANGED <<checks, q, made, v, status, depth>>

\* u.toImplementation() = c: the non-const toImplementation() hands out a
\* reference to the implementation value.
UToImplementationWrite(c) ==
    /\ status = "run"
    /\ u # NoObj
    /\ u' = c
    /\ t' = NoObj
    /\ Did("U.toImplementation", c, FALSE)
    /\ UNCHANGED mvars
    /\ UNCHANGED <<checks, q, made, v, status, depth>>

\* The value of c.conjugate() for a UnitQuaternion holding c:
\* UnitQuaternion(uq.conjugate()), the validating constructor from a Quaternion.
Conjugated(c) == Constructed(Conjugate(c))

\* u.conjugate()
UConjugate ==
    /\ status = "run"
    /\ u # NoObj
    /\ t' = Conjugated(u)
    /\ Did("U.conjugate", u, AssertFails(Conjugate(u)))
    /\ UNCHANGED mvars
    /\ UNCHANGED <<checks, q, u, made, v, status, depth>>

\* u.conjugate().conjugate(): conjugate() of the temporary just returned.
UConjugateAgain ==
    /\ status = "run"
    /\ last = "U.conjugate"
    /\ t # NoObj
    /\ t' = Conjugated(t)
    /\ Did("U.conjugate.conjugate", arg, AssertFails(Conjugate(t)))
    /\ UNCHANGED mvars
    /\ UNCHANGED <<checks, q, u, made, v, status, depth>>

\* The operations that leave the unit-norm assertion in charge.
NextChecked ==
    \/ \E c \in QuatInputs : QCtor(c)
    \/ QConjugate
    \/ QConjugateAgain
    \/ \E c \in QuatInputs : QAssign(c)
    \/ QAssignUnit
    \/ AssignRecurse
    \/ AssignStackOverflow
    \/ AssignSpin
    \/ QToUnitQuaternion
    \/ UCtorDefault
    \/ \E c \in QuatInputs : UCtorCoeffs(c)
    \/ UCtorFromQuat
    \/ \E c \in QuatInputs : UCtorFromImpl(c)
    \/ UAssign
    \/ UCallUnit
    \/ UCallQuat
    \/ UConjugate
    \/ UConjugateAgain

\* Every operation, the mutable references included.
Next ==
    \/ NextChecked
    \/ \E i \in 1..4, k \in WriteVals : UWrite(i, k)
    \/ \E c \in QuatInputs : UToImplementationWrite(c)

Init == InitQuat /\ IdleMod

Spec == Init /\ [][Next]_vars

\* The programs that never use the mutable references of a UnitQuaternion.
SpecChecked == Init /\ [][NextChecked]_vars

(***************************************************************************)
(* Part 3.  The floating-point scalar of the angle utility.                *)
(*                                                                         *)
(* A finite value is an integer number of units of 2^-FracBits that has    *)
(* the form m * 2^e, 0 <= m < 2^MantBits, 0 <= e <= MaxExp.  Every         *)
(* operation computes the exact result and rounds it to the nearest such   *)
(* value, ties to the even mantissa, and to an infinity past the largest,  *)
(* as IEEE 754 arithmetic does.                                            *)
(***************************************************************************)

\* Bits of the mantissa.
MantBits == 3

\* Bits after the binary point of the values of the smallest exponent.
FracBits == 2

\* The largest exponent.
MaxExp == 5

RECURSIVE Pow2(_)
Pow2(n) == IF n = 0 THEN 1 ELSE 2 * Pow2(n - 1)

\* 1.0
FOne == Pow2(FracBits)

\* The largest finite value.
FMax == (Pow2(MantBits) - 1) * Pow2(MaxExp)

\* +infinity (its negation is -infinity) and the value that is not a number.
FInf == 4 * FMax
FNaN == 16 * FMax

\* The finite values.
Floats ==
    LET pos == {m * Pow2(e) : m \in 0..(Pow2(MantBits) - 1), e \in 0..MaxExp}
    IN  pos \cup {-f : f \in pos}

IsFinite(a) == a # FNaN /\ a # FInf /\ a # -FInf

\* n / d rounded to an integer, ties to even (n >= 0, d > 0).
RoundHalfEven(n, d) ==
    LET k == n \div d
        r == n % d
    IN  IF 2 * r < d THEN k
        ELSE IF 2 * r > d THEN k + 1
        ELSE IF k % 2 = 0 THEN k ELSE k + 1

\* The exponent of the rational n / d >= 0: the least e whose mantissa range
\* holds it, or MaxExp.
RECURSIVE ExpOf(_, _, _)
ExpOf(n, d, e) ==
    IF e = MaxExp \/ n < Pow2(MantBits) * Pow2(e) * d THEN e
    ELSE ExpOf(n, d, e + 1)

\* The rational n / d units (d > 0), rounded to the format.
FRound(n, d) ==
    LET a == Abs(n)
        e == ExpOf(a, d, 0)
        f == RoundHalfEven(a, d * Pow2(e)) * Pow2(e)
        r == IF f > FMax THEN FInf ELSE f
    IN  IF n < 0 THEN -r ELSE r

FSign(a) == IF a < 0 THEN -1 ELSE 1

FNeg(a) == IF a = FNaN THEN FNaN ELSE -a

\* a + b
FAdd(a, b) ==
    IF a = FNaN \/ b = FNaN THEN FNaN
    ELSE IF ~IsFinite(a) /\ ~IsFinite(b) THEN (IF a = b THEN a ELSE FNaN)
    ELSE IF ~IsFinite(a) THEN a
    ELSE IF ~IsFinite(b) THEN b
    ELSE FRound(a + b, 1)

\* a - b
FSub(a, b) == FAdd(a, FNeg(b))

\* a * b
FMul(a, b) ==
    IF a = FNaN \/ b = FNaN THEN FNaN
    ELSE IF ~IsFinite(a) \/ ~IsFinite(b)
         THEN (IF a = 0 \/ b = 0 THEN FNaN ELSE FSign(a) * FSign(b) * FInf)
    ELSE FRound(a * b, FOne)

\* a / b
FDiv(a, b) ==
    IF a = FNaN \/ b = FNaN THEN FNaN
    ELSE IF ~IsFinite(a) /\ ~IsFinite(b) THEN FNaN
    ELSE IF ~IsFinite(a) THEN FSign(a) * FSign(b) * FInf
    ELSE IF ~IsFinite(b) THEN 0
    ELSE IF b = 0 THEN (IF a = 0 THEN FNaN ELSE FSign(a) * FInf)
    ELSE FRound(FSign(b) * a * FOne, Abs(b))

\* floor(a)
FFloor(a) == IF IsFinite(a) THEN FOne * (a \div FOne) ELSE a

\* The comparisons: every comparison with NaN is false.
FLt(a, b) == a # FNaN /\ b # FNaN /\ a < b
FLe(a, b) == a # FNaN /\ b # FNaN /\ a <= b
FEq(a, b) == a # FNaN /\ b # FNaN /\ a = b

\* M_PI: the value of the format nearest to pi.
MPI == FRound(355 * FOne, 113)

\* The literal 2.
FTwo == 2 * FOne

\* Mod(x, y)
Mod(x, y) ==
    IF FEq(y, 0) THEN x
    ELSE LET m == FSub(x, FMul(y, FFloor(FDiv(x, y))))
         IN  IF FLt(0, y)
             THEN IF FLe(y, m) THEN 0
                  ELSE IF FLt(m, 0)
                       THEN (IF FEq(FAdd(y, m), y) THEN 0 ELSE FAdd(y, m))
                       ELSE m
             ELSE IF FLe(m, y) THEN 0
                  ELSE IF FLt(0, m)
                       THEN (IF FEq(FAdd(y, m), y) THEN 0 ELSE FAdd(y, m))
                       ELSE m

\* wrapAngle(angle, x1, x2)
wrapAngle(angle, x1, x2) == FAdd(Mod(FSub(angle, x1), FSub(x2, x1)), x1)

\* wrapPosNegPI(angle)
wrapPosNegPI(angle) == FSub(Mod(FAdd(angle, MPI), FMul(FTwo, MPI)), MPI)

\* wrapTwoPI(angle)
wrapTwoPI(angle) == Mod(angle, FMul(FTwo, MPI))

\* The quaternion objects at rest.
IdleQuat == InitQuat /\ checks

InitMod == IdleQuat /\ IdleMod

\* The record of one call of a function of the angle utility.
Called(op, a, b, c, r) ==
    /\ mop' = op
    /\ mx' = a
    /\ my' = b
    /\ mz' = c
    /\ mres' = r

\* Mod(x, y) on finite arguments
CallMod ==
    /\ mop = "none"
    /\ \E x, y \in Floats : Called("Mod", x, y, 0, Mod(x, y))
    /\ UNCHANGED qvars

\* wrapAngle(angle, x1, x2) on finite arguments
CallWrapAngle ==
    /\ mop = "none"
    /\ \E a, x1, x2 \in Floats :
          Called("wrapAngle", a, x1, x2, wrapAngle(a, x1, x2))
    /\ UNCHANGED qvars

\* wrapPosNegPI(angle) on a finite argument
CallWrapPosNegPI ==
    /\ mop = "none"
    /\ \E a \in Floats : Called("wrapPosNegPI", a, 0, 0, wrapPosNegPI(a))
    /\ UNCHANGED qvars

\* wrapTwoPI(angle) on a finite argument
CallWrapTwoPI ==
    /\ mop = "none"
    /\ \E a \in Floats : Called("wrapTwoPI", a, 0, 0, wrapTwoPI(a))
    /\ UNCHANGED qvars

NextMod ==
    \/ CallMod
    \/ CallWrapAngle
    \/ CallWrapPosNegPI
    \/ CallWrapTwoPI

SpecMod == InitMod /\ [][NextMod]_vars

\* C2 (as claimed): for finite x and y > 0, Mod(x, y) is in [0, y), and for
\* finite x and y < 0, Mod(x, y) is in (y, 0].
C2_ModInHalfOpenRange ==
    mop = "Mod" =>
        /\ my > 0 => (IsFinite(mres) /\ 0 <= mres /\ mres < my)
        /\ my < 0 => (IsFinite(mres) /\ my < mres /\ mres <= 0)

\* C9 (as claimed): for finite angle and lo < hi, wrapAngle(angle, lo, hi) is
\* the representative of angle in [lo, hi): lo <= r < hi and r - angle is an
\* integer multiple of hi - lo; wrapPosNegPI(angle) is in [-pi, pi) and
\* congruent to angle modulo 2 pi; wrapTwoPI(angle) is in [0, 2 pi).
C9_WrapIsRepresentative ==
    /\ (mop = "wrapAngle" /\ my < mz) =>
          /\ IsFinite(mres)
          /\ my <= mres /\ mres < mz
          /\ (mres - mx) % (mz - my) = 0
    /\ mop = "wrapPosNegPI" =>
          /\ IsFinite(mres)
          /\ -MPI <= mres /\ mres < MPI
          /\ (mres - mx) % (2 * MPI) = 0
    /\ mop = "wrapTwoPI" =>
          /\ IsFinite(mres)
          /\ 0 <= mres /\ mres < 2 * MPI

(***************************************************************************)
(* Part 5.  The claims about the quaternion types.                         *)
(***************************************************************************)

\* The operations that return a UnitQuaternion temporary.
UnitTemporaryOps == {"U.conjugate", "U.conjugate.conjugate", "Q.toUnitQuaternion"}

\* The validating constructors of UnitQuaternion.
ValidatingCtorOps == {"U.ctor(w,x,y,z)", "U.ctor(Q)", "U.ctor(Impl)"}

\* The Quaternion assignments.
QuatAssignOps == {"Q.assign(Q)", "Q.assign(U)"}

\* The call of Quaternion::operator= is over: it returned, or the program died.
AssignOver == status # "assigning"

\* The scalar grid holds c / |c| exactly: the norm of c is a non-zero grid
\* value and divides every coefficient.  (The rounding of the grid, 1/Scale,
\* is coarser than the tolerance of the assertion; that of a float or double
\* is finer.)
GridExact(c) ==
    /\ ~IsNaNQuat(c)
    /\ Norm(c) > 0
    /\ Norm(c) * Norm(c) = SquaredNorm(c)
    /\ \A i \in 1..4 : (c[i] * Scale) % Norm(c) = 0

\* C1 (as claimed, for the states the last operation returned to without
\* raising): with checks enabled, a UnitQuaternion created by a validating
\* constructor has a norm within 1e-6 of 1 in every state it reaches through
\* its public operations, the writes through w(), x(), y(), z() included.
C1_UnitNormInEveryState ==
    (checks /\ u # NoObj /\ made = "validated" /\ ~raised) => NormNear(u)

\* C3 (as claimed): an assignment to a Quaternion from a Quaternion or from
\* a UnitQuaternion returns, and the receiver then holds the coefficients of
\* the source.
C3_QuaternionAssignReturns ==
    last \in QuatAssignOps =>
        /\ status \notin {"crashed", "hung"}
        /\ status = "run" => q = arg

\* C4: a validating constructor of UnitQuaternion raises the assertion if and
\* only if checks are enabled and the norm of the coefficients it is given
\* differs from 1 by more than 1e-6; it builds the object with exactly those
\* coefficients otherwise; (2, 0, 0, 0) raises when checks are enabled.
C4_ConstructorRaisesIffOffNorm ==
    last \in ValidatingCtorOps =>
        /\ raised <=> (checks /\ ~NormNear(arg))
        /\ raised => u = NoObj
        /\ ~raised => u = arg
        /\ (checks /\ arg = <<2 * Scale, 0, 0, 0>>) => raised

\* C4 witness: with checks enabled the constructor from four coefficients was
\* given (2, 0, 0, 0) and raised.
C4_Witness ==
    /\ last = "U.ctor(w,x,y,z)"
    /\ checks
    /\ arg = <<2 * Scale, 0, 0, 0>>
    /\ raised
    /\ u = NoObj

C6_CallNeverRaises ==
    last = "U.call(Q)" => (u = arg /\ ~raised)

\* C6 (amended): operator() taking a Quaternion copies the four coefficients
\* into the receiver and then validates: it raises the assertion if and only
\* if checks are enabled and the norm of the source differs from 1 by more
\* than 1e-6, and the receiver holds the copied coefficients either way.
C6_CallCopiesThenValidates ==
    last = "U.call(Q)" =>
        /\ u = arg
        /\ raised <=> (checks /\ ~NormNear(arg))

\* C6 witness: operator() was given a Quaternion off the unit sphere, raised,
\* and the receiver holds its coefficients.
C6_Witness ==
    /\ last = "U.call(Q)"
    /\ raised
    /\ u = arg
    /\ ~NormNear(u)

C8_ConjugateTwice ==
    /\ last = "Q.conjugate.conjugate" => (t = arg /\ q = arg)
    /\ (last \in {"U.conjugate", "U.conjugate.conjugate"} /\ NormNear(arg)) =>
          /\ ~raised
          /\ t # NoObj
          /\ NormNear(t)
    /\ (last = "U.conjugate.conjugate" /\ NormNear(arg)) => (t = arg /\ u = arg)

\* C8 witness: with checks enabled a valid UnitQuaternion with a vector part
\* was conjugated twice.
C8_Witness ==
    /\ last = "U.conjugate.conjugate"
    /\ checks
    /\ arg = <<0, 3 * Fifth, 0, 4 * Fifth>>
    /\ NormNear(arg)
    /\ t = arg

\* C10 (as claimed): with checks enabled and the mutable references never
\* used, every UnitQuaternion that exists has a norm within 1e-6 of 1, the
\* receiver of an operation that raised included.
C10_NoObjectOffTheSphere ==
    checks =>
        /\ u # NoObj => NormNear(u)
        /\ v # NoObj => NormNear(v)
        /\ (last \in UnitTemporaryOps /\ t # NoObj) => NormNear(t)

====
